---- MODULE Spec2Model ----
(***************************************************************************)
(* A model of the FIFA analytics dashboards: the three Streamlit scripts   *)
(* (app.py, advanced_analytics.py, tactical_analysis.py) and the analytics *)
(* layer they call (utils/analytics.py, PlayerClusterAnalyzer).            *)
(*                                                                         *)
(* A player record is a TLA+ record; a missing value (pandas NaN) is NA.   *)
(* A DataFrame is a frame [id, rows, cols]: id is the identity of the      *)
(* Python object (so that a write through an alias can be told from a      *)
(* write to a copy), rows the records in index order, cols the columns     *)
(* added to it after loading.  Library estimators (StandardScaler, the     *)
(* regressors, KMeans) are modelled by what they are fitted on.            *)
(***************************************************************************)
EXTENDS Integers, Sequences, FiniteSets, TLC

VARIABLES
    dash,        \* which script runs: "main", "advanced" or "tactical"
    male,        \* data/male_players.csv:   [status, rows]
    female,      \* data/female_players.csv: [status, rows]
    pc,          \* position of the script run: "start", "loaded", "stopped"
    df,          \* the frame load_data returned (NoneFrame when it returned None)
    errorsShown, \* number of st.error messages shown in this run
    loadCalls,   \* number of times load_data was called in this run
    ranOp,       \* TRUE once any filter, chart, clustering or training ran
    predictor,   \* the PlayerValuePredictor object
    analyzer,    \* the PlayerClusterAnalyzer object
    out,         \* the last analytics call: [op, args, ctx, ret]
    trainedOn,   \* history: whether train() was called, whether a call
                 \* completed, and the rows the last completed call was given
    clusteredOn  \* history: the arguments and the labels of the last
                 \* perform_clustering()

vars == <<dash, male, female, pc, df, errorsShown, loadCalls, ranOp,
          predictor, analyzer, out, trainedOn, clusteredOn>>

\* ------------------------------------------------------------------ bounds
MaxMale == 3      \* rows of male_players.csv in a session
MaxFemale == 2    \* rows of female_players.csv
MaxClusters == 2  \* n_clusters
MaxSimilar == 2   \* n_similar, beside the default
MaxPrepare == 3   \* rows of the dataset prepare_data is explored on
MaxFormation == 4 \* rows of the dataset the formation analysis is explored on
MaxSelected == 12 \* names passed to create_team_chemistry_analysis
MaxReport == 3    \* rows of the dataset the player report is explored on
MinRanked == 38   \* fewest rows of the dataset the undervalued players are ranked on
MaxRanked == 46   \* most rows of that dataset
MaxSeed == 11     \* variants of that dataset

\* ------------------------------------------------------------ player records
\* pandas NaN in a numeric column (every real value of the model is >= 0)
NA == -1

\* a text column value: a character sequence, or NaN
Str(chars) == [na |-> FALSE, s |-> chars]
NaStr == [na |-> TRUE, s |-> <<>>]

GK == Str(<<"G", "K">>)
CB == Str(<<"C", "B">>)
CM == Str(<<"C", "M">>)
ST == Str(<<"S", "T">>)
CB_CM == Str(<<"C", "B", ",", " ", "C", "M">>)
ST_GK == Str(<<"S", "T", ",", " ", "G", "K">>)
CAM_RWB == Str(<<"C", "A", "M", ",", " ", "R", "W", "B">>)
EmptyStr == Str(<<>>)
LB == Str(<<"L", "B">>)
LWB == Str(<<"L", "W", "B">>)
CDM == Str(<<"C", "D", "M">>)
LM == Str(<<"L", "M">>)
ST_CM == Str(<<"S", "T", ",", " ", "C", "M">>)

\* A record of the CSV files.  skills is <<pace, shooting, passing, dribbling,
\* defending, physic>>, gk is <<diving, handling, kicking, positioning, reflexes>>.
Player(id, pos, ovr, pot, val, age, skills, gk) ==
    [player_id |-> id, player_positions |-> pos,
     overall |-> ovr, potential |-> pot, value_eur |-> val, wage_eur |-> NA,
     age |-> age,
     pace |-> skills[1], shooting |-> skills[2], passing |-> skills[3],
     dribbling |-> skills[4], defending |-> skills[5], physic |-> skills[6],
     height_cm |-> 7, weight_kg |-> 3, weak_foot |-> 3, skill_moves |-> 2,
     goalkeeping_diving |-> gk[1], goalkeeping_handling |-> gk[2],
     goalkeeping_kicking |-> gk[3], goalkeeping_positioning |-> gk[4],
     goalkeeping_reflexes |-> gk[5],
     gender |-> "none"]

NoSkills == <<NA, NA, NA, NA, NA, NA>>
NoGk == <<NA, NA, NA, NA, NA>>

\* The records the files are drawn from: complete records (two with identical
\* features, one proportional to them), a goalkeeper without outfield ratings,
\* and records with a missing value, overall or potential.
MalePalette ==
    { Player(1, CB, 2, 2, 10, 2, <<1, 1, 1, 1, 1, 1>>, NoGk),
      Player(2, CB_CM, 2, 3, 8, 2, <<1, 1, 1, 1, 1, 1>>, NoGk),
      Player(3, ST, 4, 4, 24, 4, <<2, 2, 2, 2, 2, 2>>, NoGk),
      Player(4, GK, 3, 3, 9, 3, NoSkills, <<3, 3, 2, 3, 4>>),
      Player(5, CM, 3, 4, NA, 2, <<1, 2, 3, 2, 1, 1>>, NoGk),
      Player(6, ST, NA, 4, 12, 2, <<3, 3, 1, 2, 1, 2>>, NoGk) }

FemalePalette ==
    { Player(7, CAM_RWB, 2, 3, 6, 3, <<2, 1, 2, 2, 1, 1>>, NoGk),
      Player(8, CB, 3, NA, 9, 2, <<1, 1, 2, 1, 3, 2>>, NoGk) }

\* a record with the text columns of the CSV files that name the player
Named(r, name, club, nationality, league) ==
    r @@ [long_name |-> name, club_name |-> club,
          nationality_name |-> nationality, league_name |-> league]

\* NaN in one of these text columns (a free agent has no club and no league)
NaText == "<NaN>"

\* the sequences without repetition of at most n members of S
InjSeqs(S, n) ==
    { s \in UNION { [1..k -> S] : k \in 0..n } :
        \A i, j \in 1..Len(s) : s[i] = s[j] => i = j }

\* those of them that are in the order of player_id
ById(S, n) ==
    { s \in InjSeqs(S, n) :
        \A i \in 1..(Len(s) - 1) : s[i].player_id < s[i + 1].player_id }

\* A CSV file: readable with all columns (its rows in any order, or only in
\* the order of player_id), readable but without the column 'overall' (which
\* every script's dropna names), or unreadable (pd.read_csv raises)
Files(palette, n, anyOrder) ==
    { [status |-> "ok", rows |-> s] :
        s \in IF anyOrder THEN InjSeqs(palette, n) ELSE ById(palette, n) }
        \cup { [status |-> "nocolumns", rows |-> s] :
                  s \in { t \in InjSeqs(palette, n) : Len(t) <= 1 } }
        \cup { [status |-> "unreadable", rows |-> <<>>] }

\* ------------------------------------------------------------------ frames
NoneFrame == [id |-> "None", rows |-> <<>>, cols |-> {}]
IsNone(f) == f.id = "None"

\* df[mask], df.dropna(...), df.loc[...]: a new object holding the kept rows
Derived(f, rows) == [id |-> "derived", rows |-> rows, cols |-> f.cols]

\* df.copy() mutated into a plain alias (df_copy = df)
DfAlias(f) == f
\* df.copy(): a new object with the same content
DfCopy(f) == [f EXCEPT !.id = "copy"]

\* What a column assignment target[col] = ... does to frame f: it reaches f
\* only when target is the same object as f.
AssignColumn(f, target, col) ==
    IF target.id = f.id THEN [f EXCEPT !.cols = @ \cup {col}] ELSE f

\* all(r[c] is present for c in subset)
NotNaAll(r, subset) == \A c \in subset : r[c] # NA

RECURSIVE DropNa(_, _)
\* rows.dropna(subset=subset): the rows with every column of subset present,
\* in their order
DropNa(rows, subset) ==
    IF rows = <<>> THEN <<>>
    ELSE LET rest == DropNa(Tail(rows), subset)
         IN IF NotNaAll(Head(rows), subset) THEN <<Head(rows)>> \o rest ELSE rest

\* fillna(0) on one column
FillNa(r, col) == IF r[col] = NA THEN [r EXCEPT ![col] = 0] ELSE r

\* frame['gender'] = g
SetGender(rows, g) == [i \in 1..Len(rows) |-> [rows[i] EXCEPT !.gender = g]]

\* ---------------------------------------------------------------- load_data
\* dropna mutated to leave potential out of every subset
CoreFieldsNoPotential(d) ==
    CASE d = "main" -> {"overall", "value_eur"}
      [] d = "advanced" -> {"overall"}
      [] d = "tactical" -> {"overall", "pace", "shooting", "passing",
                            "dribbling", "defending", "physic"}

\* the subset each script's load_data passes to dropna
CoreFields(d) ==
    CASE d = "main" -> {"overall", "potential", "value_eur"}
      [] d = "advanced" -> {"overall", "potential"}
      [] d = "tactical" -> {"overall", "pace", "shooting", "passing",
                            "dribbling", "defending", "physic"}

\* the cleaning after the concat: dropna, and in the main script the fillna
\* of value_eur and wage_eur (age_group is a derived column, not modelled)
Clean(d, rows) ==
    LET kept == DropNa(rows, CoreFields(d))
    IN IF d = "main"
       THEN [i \in 1..Len(kept) |-> FillNa(FillNa(kept[i], "value_eur"), "wage_eur")]
       ELSE kept

\* pd.concat of the two files: a column one file lacks is NaN in its rows
ReadRows(file) ==
    IF file.status = "nocolumns"
    THEN [i \in 1..Len(file.rows) |-> [file.rows[i] EXCEPT !.overall = NA]]
    ELSE file.rows

\* load_data of script d on the two files: [ret, errors].  Any exception of
\* read_csv (an unreadable file) or of the preprocessing (dropna on a column
\* neither file has) is caught: one st.error, return None.
LoadData(d, m, f) ==
    IF m.status = "unreadable" \/ f.status = "unreadable"
    THEN [ret |-> NoneFrame, errors |-> 1]
    ELSE IF m.status = "nocolumns" /\ f.status = "nocolumns"
    THEN [ret |-> NoneFrame, errors |-> 1]
    ELSE [ret |-> [id |-> "loaded",
                   rows |-> Clean(d, SetGender(ReadRows(m), "Male")
                                       \o SetGender(ReadRows(f), "Female")),
                   cols |-> {}],
          errors |-> 0]

\* main() mutated to go on without the check for None
AfterLoadNoStop(ret) == "loaded"
\* main(): df = load_data(); if df is None: st.stop()
AfterLoad(ret) == IF IsNone(ret) THEN "stopped" ELSE "loaded"

\* app.py's gender filter: filtered_df[filtered_df['gender'] == g]
RECURSIVE WithGender(_, _)
WithGender(rows, g) ==
    IF rows = <<>> THEN <<>>
    ELSE IF Head(rows).gender = g THEN <<Head(rows)>> \o WithGender(Tail(rows), g)
    ELSE WithGender(Tail(rows), g)

\* the frames a session hands to the analytics layer: the loaded frame and
\* its gender selections
Views(f) ==
    { f, Derived(f, WithGender(f.rows, "Male")),
         Derived(f, WithGender(f.rows, "Female")) }

Ids(rows) == [i \in 1..Len(rows) |-> rows[i].player_id]

\* ------------------------------------------------------ PlayerValuePredictor
\* an estimator: not fitted, or fitted on the records with these ids
Unfitted == [fitted |-> FALSE, on |-> <<>>]
FittedOn(ids) == [fitted |-> TRUE, on |-> ids]

\* __init__
NewPredictor ==
    [is_trained |-> FALSE, scaler |-> Unfitted, rf_model |-> Unfitted,
     gb_model |-> Unfitted]

feature_cols ==
    {"overall", "potential", "age", "pace", "shooting", "passing", "dribbling",
     "defending", "physic", "height_cm", "weight_kg", "weak_foot", "skill_moves"}

\* the 13 values the advanced script passes to predict for a record
FeatureVector(r) ==
    <<r.overall, r.potential, r.age, r.pace, r.shooting, r.passing, r.dribbling,
      r.defending, r.physic, r.height_cm, r.weight_kg, r.weak_foot, r.skill_moves>>

OutlierCap == 200000000

RECURSIVE PrepareData(_)
\* prepare_data: the rows with 0 < value_eur < 200M and all features present
\* (a NaN value compares False and is dropped)
PrepareData(rows) ==
    IF rows = <<>> THEN <<>>
    ELSE LET r == Head(rows)
             keep == r.value_eur > 0 /\ r.value_eur < OutlierCap
                     /\ NotNaAll(r, feature_cols)
         IN IF keep THEN <<r>> \o PrepareData(Tail(rows)) ELSE PrepareData(Tail(rows))

RECURSIVE Masked(_, _, _)
\* series[mask] from index label i on: the entries whose mask is True, each
\* with its index label, in index order
Masked(series, mask, i) ==
    IF i > Len(series) THEN <<>>
    ELSE (IF mask[i] THEN << <<i, series[i]>> >> ELSE <<>>)
         \o Masked(series, mask, i + 1)

\* prepare_data(df) as the pair (X, y) it returns: the feature rows and the
\* targets, both cut by the same mask
PrepareDataXy(rows) ==
    LET X == [i \in 1..Len(rows) |-> FeatureVector(rows[i])]
        y == [i \in 1..Len(rows) |-> rows[i].value_eur]
        mask == [i \in 1..Len(rows) |->
                    /\ y[i] > 0
                    /\ y[i] < OutlierCap
                    /\ \A k \in 1..Len(X[i]) : X[i][k] # NA]
    IN [X |-> Masked(X, mask, 1), y |-> Masked(y, mask, 1)]

\* train_test_split(test_size=0.2): n_test = ceil(0.2 n); an empty train set
\* raises ValueError
NTest(n) == (n + 4) \div 5
SplitRaises(n) == n - NTest(n) <= 0

Raise(msg) == [kind |-> "raise", val |-> <<msg>>]
Return(kind, val) == [kind |-> kind, val |-> val]

MustTrain == "Model must be trained first"

\* train mutated to set is_trained on entry, before the split can raise
TrainFlagFirst(self, rows) ==
    LET X == PrepareData(rows)
    IN IF SplitRaises(Len(X))
       THEN [self |-> [self EXCEPT !.is_trained = TRUE],
             ret |-> Raise("ValueError: empty train set")]
       ELSE [self |-> [is_trained |-> TRUE, scaler |-> FittedOn(Ids(X)),
                       rf_model |-> FittedOn(Ids(X)), gb_model |-> FittedOn(Ids(X))],
             ret |-> Return("metrics", <<NTest(Len(X))>>)]

\* train mutated to fit the scaler on all of X before splitting
TrainScaleFirst(self, rows) ==
    LET X == PrepareData(rows)
    IN IF SplitRaises(Len(X))
       THEN [self |-> [self EXCEPT !.scaler = FittedOn(Ids(X))],
             ret |-> Raise("ValueError: empty train set")]
       ELSE [self |-> [is_trained |-> TRUE, scaler |-> FittedOn(Ids(X)),
                       rf_model |-> FittedOn(Ids(X)), gb_model |-> FittedOn(Ids(X))],
             ret |-> Return("metrics", <<NTest(Len(X))>>)]

\* train(df): [self, ret].  The split is the only step that can raise, and it
\* comes before the scaler and the models are fitted and the flag is set.
Train(self, rows) ==
    LET X == PrepareData(rows)
    IN IF SplitRaises(Len(X))
       THEN [self |-> self, ret |-> Raise("ValueError: empty train set")]
       ELSE [self |-> [is_trained |-> TRUE, scaler |-> FittedOn(Ids(X)),
                       rf_model |-> FittedOn(Ids(X)), gb_model |-> FittedOn(Ids(X))],
             ret |-> Return("metrics", <<NTest(Len(X))>>)]

\* predict(player_features): the ValueError, or 0.6 rf + 0.4 gb of the scaled
\* features, which is whatever the fitted estimators compute from x
Predict(self, x) ==
    IF ~self.is_trained THEN Raise(MustTrain)
    ELSE Return("ensemble", <<self.scaler, self.rf_model, self.gb_model, x>>)

\* get_feature_importance(): the ValueError, or the forest's importances
GetFeatureImportance(self) ==
    IF ~self.is_trained THEN Raise(MustTrain)
    ELSE Return("importance", <<self.rf_model>>)

\* ----------------------------------------------------- PlayerClusterAnalyzer
cluster_features ==
    {"pace", "shooting", "passing", "dribbling", "defending", "physic", "overall"}

\* __init__
NewAnalyzer == [scaler |-> Unfitted, kmeans |-> [n |-> 0, fitted |-> FALSE]]

\* result_df['cluster'] = clusters, row by row
WithCluster(rows, labels) ==
    [i \in 1..Len(rows) |-> rows[i] @@ [cluster |-> labels[i]]]

\* perform_clustering mutated to take every row of df (no dropna)
ClusterDataAll(rows) == rows
\* cluster_data = df[self.cluster_features].dropna()
ClusterData(rows) == DropNa(rows, cluster_features)

\* perform_clustering(df, n_clusters) on the rows of df: [self, ret].  labels is what
\* KMeans.fit_predict returns for the scaled data: one label in 0..n-1 per
\* sample.  StandardScaler.fit resets the scaler and then raises on an empty
\* input; KMeans raises when there are fewer samples than clusters, after the
\* scaler has been refitted and self.kmeans replaced.
PerformClustering(self, rows, n, labels) ==
    LET data == ClusterData(rows)
    IN IF Len(data) = 0
       THEN [self |-> [self EXCEPT !.scaler = Unfitted],
             ret |-> Raise("ValueError: 0 samples")]
       ELSE IF n < 1 \/ Len(data) < n
       THEN [self |-> [scaler |-> FittedOn(Ids(data)),
                       kmeans |-> [n |-> n, fitted |-> FALSE]],
             ret |-> Raise("ValueError: n_samples < n_clusters")]
       ELSE [self |-> [scaler |-> FittedOn(Ids(data)),
                       kmeans |-> [n |-> n, fitted |-> TRUE]],
             ret |-> Return("clustered", WithCluster(data, labels))]

\* the label arrays KMeans(n_clusters=n).fit_predict may return for the rows
Labelings(rows, n) == [1..Len(ClusterData(rows)) -> 0..(n - 1)]
\* one of them: the samples dealt round the clusters
OneLabeling(rows, n) == { [i \in 1..Len(ClusterData(rows)) |-> (i - 1) % n] }
\* the answers of fit_predict that are explored: every one, or one
FitPredict(rows, n, every) ==
    IF every THEN Labelings(rows, n) ELSE OneLabeling(rows, n)

\* create_cluster_visualization(clustered_df): the scaler fitted by the last
\* perform_clustering transforms the features (NotFittedError when there was
\* none), then PCA(n_components=2) needs two samples; the figure is whatever
\* PCA and plotly make of the scaled rows
CreateClusterVisualization(self, rows) ==
    IF ~self.scaler.fitted THEN Raise("NotFittedError")
    ELSE IF ~(\A i \in 1..Len(rows) : NotNaAll(rows[i], cluster_features))
    THEN Raise("ValueError: Input contains NaN")
    ELSE IF Len(rows) < 2 THEN Raise("ValueError: n_components=2")
    ELSE Return("figure", <<self.scaler, rows>>)

\* ------------------------------------------------------------ PlayerAnalyzer
\* Python's `sub in s`
Contains(s, sub) ==
    \E i \in 1..(Len(s) - Len(sub) + 1) : SubSeq(s, i, i + Len(sub) - 1) = sub

ContainsAny(s, subs) == \E sub \in subs : Contains(s, sub)

\* the weight tables, in hundredths, as <<attribute, weight>> in dict order
GoalkeeperWeights ==
    << <<"goalkeeping_diving", 20>>, <<"goalkeeping_handling", 20>>,
       <<"goalkeeping_kicking", 15>>, <<"goalkeeping_positioning", 20>>,
       <<"goalkeeping_reflexes", 25>> >>
DefenderWeights ==
    << <<"defending", 30>>, <<"physic", 20>>, <<"pace", 20>>, <<"passing", 20>>,
       <<"dribbling", 10>> >>
MidfielderWeights ==
    << <<"passing", 30>>, <<"dribbling", 25>>, <<"defending", 15>>,
       <<"physic", 15>>, <<"shooting", 15>> >>
ForwardWeights ==
    << <<"shooting", 30>>, <<"pace", 25>>, <<"dribbling", 25>>,
       <<"passing", 10>>, <<"physic", 10>> >>

\* the weight table mutated to give goalkeeping_kicking 0.2
WeightsKicking20(position) ==
    IF Contains(position, <<"G", "K">>)
    THEN << <<"goalkeeping_diving", 20>>, <<"goalkeeping_handling", 20>>,
            <<"goalkeeping_kicking", 20>>, <<"goalkeeping_positioning", 20>>,
            <<"goalkeeping_reflexes", 25>> >>
    ELSE IF ContainsAny(position, {<<"C", "B">>, <<"L", "B">>, <<"R", "B">>,
                                   <<"L", "W", "B">>, <<"R", "W", "B">>})
    THEN DefenderWeights
    ELSE IF ContainsAny(position, {<<"C", "M">>, <<"C", "D", "M">>,
                                   <<"C", "A", "M">>})
    THEN MidfielderWeights
    ELSE ForwardWeights

\* the chain mutated to test for a midfielder before a defender
WeightsMidfielderFirst(position) ==
    IF Contains(position, <<"G", "K">>) THEN GoalkeeperWeights
    ELSE IF ContainsAny(position, {<<"C", "M">>, <<"C", "D", "M">>,
                                   <<"C", "A", "M">>})
    THEN MidfielderWeights
    ELSE IF ContainsAny(position, {<<"C", "B">>, <<"L", "B">>, <<"R", "B">>,
                                   <<"L", "W", "B">>, <<"R", "W", "B">>})
    THEN DefenderWeights
    ELSE ForwardWeights

\* the if/elif chain on the positions string
Weights(position) ==
    IF Contains(position, <<"G", "K">>) THEN GoalkeeperWeights
    ELSE IF ContainsAny(position, {<<"C", "B">>, <<"L", "B">>, <<"R", "B">>,
                                   <<"L", "W", "B">>, <<"R", "W", "B">>})
    THEN DefenderWeights
    ELSE IF ContainsAny(position, {<<"C", "M">>, <<"C", "D", "M">>,
                                   <<"C", "A", "M">>})
    THEN MidfielderWeights
    ELSE ForwardWeights

\* The weights are binary64 numbers, and total_weight and performance_index
\* are binary64 sums.  Every value they take (0, or between 0.1 and 100) is a
\* multiple of 2^-56, kept as its number of 2^-56 units in three limbs
\* <<high, middle, low>>, the middle and low ones of 20 bits.
Limb == 2^20
FloatZero == <<0, 0, 0>>
FloatOne == <<2^16, 0, 0>>

\* the limbs brought back below 2^20, the carries moved up
Carry(l) ==
    LET middle == l[2] + l[3] \div Limb
    IN <<l[1] + middle \div Limb, middle % Limb, l[3] % Limb>>

RECURSIVE UlpOf(_)
\* the spacing of the doubles at l, in units: 53 significant bits
UlpOf(l) ==
    IF l[1] >= 2^17 THEN 2 * UlpOf(<<l[1] \div 2, 0, 0>>)
    ELSE IF l[1] >= 2^16 THEN 16
    ELSE IF l[1] >= 2^15 THEN 8
    ELSE IF l[1] >= 2^14 THEN 4
    ELSE IF l[1] >= 2^13 THEN 2
    ELSE 1

\* the double nearest to l + num/den units (0 <= num/den < 1), ties to even
RoundToDouble(l, num, den) ==
    LET u == UlpOf(l)
        low == l[3] % u
        down == l[3] - low
        twice == 2 * (low * den + num)
        up == \/ twice > u * den
              \/ twice = u * den /\ (down \div u) % 2 = 1
    IN Carry(<<l[1], l[2], IF up THEN down + u ELSE down>>)

\* the double a literal of h hundredths (0.2, 0.15, ...) denotes: h * 2^56 / 100
\* units by long division, rounded
FloatLiteral(h) ==
    LET high == h * 2^16
        middle == (high % 100) * Limb
        low == (middle % 100) * Limb
    IN RoundToDouble(<<high \div 100, middle \div 100, low \div 100>>, low % 100, 100)

\* x + y in binary64
FloatAdd(x, y) == RoundToDouble(Carry(<<x[1] + y[1], x[2] + y[2], x[3] + y[3]>>), 0, 1)

\* value * weight in binary64, value being a whole number
FloatMul(v, w) == RoundToDouble(Carry(<<v * w[1], v * w[2], v * w[3]>>), 0, 1)

\* x >= y
FloatGeq(x, y) ==
    \/ x[1] > y[1]
    \/ x[1] = y[1] /\ x[2] > y[2]
    \/ x[1] = y[1] /\ x[2] = y[2] /\ x[3] >= y[3]

\* x - y for x >= y (exact)
FloatSub(x, y) ==
    LET borrowLow == IF x[3] < y[3] THEN 1 ELSE 0
        middle == x[2] - y[2] - borrowLow
        borrowMiddle == IF middle < 0 THEN 1 ELSE 0
    IN <<x[1] - y[1] - borrowMiddle, middle + borrowMiddle * Limb,
         x[3] - y[3] + borrowLow * Limb>>

\* k l + d (exact)
FloatScale(l, k, d) == Carry(<<k * l[1], k * l[2], k * l[3] + d>>)

\* digit k of l to the base 1024
FloatDigit(l, k) ==
    CASE k = 0 -> l[3] % 1024
      [] k = 1 -> l[3] \div 1024
      [] k = 2 -> l[2] % 1024
      [] k = 3 -> l[2] \div 1024
      [] k = 4 -> l[1] % 1024
      [] k = 5 -> (l[1] \div 1024) % 1024
      [] k = 6 -> l[1] \div (1024 * 1024)

RECURSIVE Reduce(_, _, _)
\* r brought below b by subtracting b, q counting: <<remainder, digit>>
Reduce(r, b, q) ==
    IF FloatGeq(r, b) THEN Reduce(FloatSub(r, b), b, q + 1) ELSE <<r, q>>

\* one step of the long division of a * 2^60 by b to the base 1024, at digit
\* j, s being <<remainder, quotient>> so far: the digit is estimated from the
\* high limbs (never too high) and then made exact
DivStep(a, b, j, s) ==
    LET r == FloatScale(s[1], 1024, IF j >= 6 THEN FloatDigit(a, j - 6) ELSE 0)
        estimate == r[1] \div (b[1] + 1)
        d == Reduce(FloatSub(r, FloatScale(b, estimate, 0)), b, estimate)
    IN <<d[1], FloatScale(s[2], 1024, d[2])>>

RECURSIVE DivSteps(_, _, _, _)
\* the steps from digit j down, each on the result of the one before
DivSteps(a, b, j, s) ==
    IF j < 0 THEN s
    ELSE LET next == DivStep(a, b, j, s)
         IN IF Len(next) = 2 THEN DivSteps(a, b, j - 1, next) ELSE next

\* a / b in binary64: the quotient in sixteenths of a unit, brought to units
\* and rounded (what is dropped puts the quotient strictly between two
\* multiples of the unit)
FloatDiv(a, b) ==
    LET d == DivSteps(a, b, 12, <<FloatZero, FloatZero>>)
        q == d[2]
        quotient == <<q[1] \div 16, ((q[1] % 16) * Limb + q[2]) \div 16,
                      ((q[2] % 16) * Limb + q[3]) \div 16>>
    IN IF d[1] = FloatZero /\ q[3] % 16 = 0 THEN RoundToDouble(quotient, 0, 1)
       ELSE RoundToDouble(quotient, 1, 2)

RECURSIVE WeightedScore(_, _, _)
\* the loop over the rest of weights.items(), acc being <<sum, weight,
\* total_weight, performance_index>> so far: the sum of value * weight and the
\* sum of the weights in exact hundredths, and total_weight and
\* performance_index as the code adds them up
WeightedScore(player_data, weights, acc) ==
    IF weights = <<>> THEN acc
    ELSE LET attribute == Head(weights)[1]
             weight == Head(weights)[2]
         IN IF player_data[attribute] # NA
            THEN WeightedScore(player_data, Tail(weights),
                               <<acc[1] + player_data[attribute] * weight,
                                 acc[2] + weight,
                                 FloatAdd(acc[3], FloatLiteral(weight)),
                                 FloatAdd(acc[4],
                                          FloatMul(player_data[attribute],
                                                   FloatLiteral(weight)))>>)
            ELSE WeightedScore(player_data, Tail(weights), acc)

\* calculate_performance_index mutated to leave out the division by
\* total_weight
CalculatePerformanceIndexUndivided(player_data) ==
    IF player_data.player_positions.na
    THEN Raise("TypeError: argument of type 'float' is not iterable")
    ELSE LET acc == WeightedScore(player_data,
                                  Weights(player_data.player_positions.s),
                                  <<0, 0, FloatZero, FloatZero>>)
         IN Return("index", [num |-> acc[1], den |-> 100,
                             total_weight |-> acc[3], value |-> acc[4]])

\* calculate_performance_index(player_data): [num, den, total_weight, value],
\* value being the double returned, performance_index / total_weight as the
\* code computes it, total_weight the double it divides by, and num / den the
\* same quotient in exact arithmetic; the index is 0 when no attribute is
\* present; a NaN positions value makes `'GK' in position` raise
CalculatePerformanceIndex(player_data) ==
    IF player_data.player_positions.na
    THEN Raise("TypeError: argument of type 'float' is not iterable")
    ELSE LET acc == WeightedScore(player_data,
                                  Weights(player_data.player_positions.s),
                                  <<0, 0, FloatZero, FloatZero>>)
         IN IF acc[2] > 0
            THEN Return("index", [num |-> acc[1], den |-> acc[2],
                                  total_weight |-> acc[3],
                                  value |-> FloatDiv(acc[4], acc[3])])
            ELSE Return("index", [num |-> 0, den |-> 1, total_weight |-> FloatZero,
                                  value |-> FloatZero])

\* the feature_cols of find_similar_players
similarity_cols ==
    <<"overall", "pace", "shooting", "passing", "dribbling", "defending",
      "physic", "age">>

RECURSIVE DotFrom(_, _, _)
DotFrom(a, b, k) ==
    IF k > Len(similarity_cols) THEN 0
    ELSE a[similarity_cols[k]] * b[similarity_cols[k]] + DotFrom(a, b, k + 1)
\* the dot product of two records' feature vectors
Dot(a, b) == DotFrom(a, b, 1)

HasSimilarityFeatures(r) ==
    \A k \in 1..Len(similarity_cols) : r[similarity_cols[k]] # NA

RECURSIVE PositionsFrom(_, _)
PositionsFrom(rows, i) ==
    IF i > Len(rows) THEN <<>>
    ELSE IF HasSimilarityFeatures(rows[i]) THEN <<i>> \o PositionsFrom(rows, i + 1)
    ELSE PositionsFrom(rows, i + 1)
\* all_features = df[feature_cols].dropna(): the index of the complete rows
AllFeatures(rows) == PositionsFrom(rows, 1)

\* df[df['player_id'] == target_player_id]
TargetRows(rows, id) == SelectSeq(rows, LAMBDA r : r.player_id = id)

\* cosine_similarity(t, x) = dot / (|t| |x|), kept as the exact fraction
\* dot^2 / (t2 * x2) of non-negative vectors
Cosine(t, x) == [dot |-> Dot(t, x), t2 |-> Dot(t, t), x2 |-> Dot(x, x)]
CosLeq(a, b) == a.dot * a.dot * b.x2 <= b.dot * b.dot * a.x2

\* similarities: one per row of all_features
Similarities(rows, id) ==
    LET t == TargetRows(rows, id)[1]
        idx == AllFeatures(rows)
    IN [k \in 1..Len(idx) |-> Cosine(t, rows[idx[k]])]

RECURSIVE PermutationsOf(_)
\* the orders of 1..n: n put at each place of each order of 1..n-1
PermutationsOf(n) ==
    IF n = 0 THEN {<<>>}
    ELSE { [i \in 1..n |-> IF i < k THEN p[i] ELSE IF i = k THEN n ELSE p[i - 1]] :
             p \in PermutationsOf(n - 1), k \in 1..n }

\* similarities.argsort(): any permutation that puts the similarities in
\* ascending order (the default sort kind is not stable, so the order of equal
\* similarities is any)
ArgSorts(sims) ==
    { p \in PermutationsOf(Len(sims)) :
        \A i \in 1..(Len(sims) - 1) : CosLeq(sims[p[i]], sims[p[i + 1]]) }

\* whether find_similar_players gets as far as the argsort
SimilarityDefined(rows, id) ==
    /\ TargetRows(rows, id) # <<>>
    /\ HasSimilarityFeatures(TargetRows(rows, id)[1])

\* the answers of argsort that are explored: every one, or one
ArgSortsFor(rows, id, every) ==
    IF ~SimilarityDefined(rows, id) THEN {<<>>}
    ELSE IF every THEN ArgSorts(Similarities(rows, id))
    ELSE {CHOOSE p \in ArgSorts(Similarities(rows, id)) : TRUE}

\* a[-n-1:-1][::-1] of a 1-based sequence a
SliceReversed(a, n) ==
    LET m == Len(a)
        lo == IF m - n - 1 > 0 THEN m - n ELSE 1
        hi == m - 1
    IN [k \in 1..(IF hi >= lo THEN hi - lo + 1 ELSE 0) |-> a[hi - k + 1]]

\* find_similar_players mutated to go on without the check for an empty
\* target: cosine_similarity then raises on an array of no samples
FindSimilarPlayersNoCheck(rows, id, n, order) ==
    IF TargetRows(rows, id) = <<>>
    THEN Raise("ValueError: Found array with 0 sample(s)")
    ELSE IF ~HasSimilarityFeatures(TargetRows(rows, id)[1])
    THEN Raise("ValueError: Input contains NaN")
    ELSE LET idx == AllFeatures(rows)
             sims == Similarities(rows, id)
             similar_indices == SliceReversed(order, n)
         IN Return("similar",
                   [k \in 1..Len(similar_indices) |->
                      [player_id |-> rows[idx[similar_indices[k]]].player_id,
                       overall |-> rows[idx[similar_indices[k]]].overall,
                       value_eur |-> rows[idx[similar_indices[k]]].value_eur,
                       similarity_score |-> sims[similar_indices[k]]]])

\* find_similar_players(df, target_player_id, n_similar), order being what
\* argsort returned: the empty table for an unknown id, a ValueError of
\* cosine_similarity for a target with a missing feature, else the rows
\* of similar_indices with their scores
FindSimilarPlayers(rows, id, n, order) ==
    IF TargetRows(rows, id) = <<>> THEN Return("similar", <<>>)
    ELSE IF ~HasSimilarityFeatures(TargetRows(rows, id)[1])
    THEN Raise("ValueError: Input contains NaN")
    ELSE LET idx == AllFeatures(rows)
             sims == Similarities(rows, id)
             similar_indices == SliceReversed(order, n)
         IN Return("similar",
                   [k \in 1..Len(similar_indices) |->
                      [player_id |-> rows[idx[similar_indices[k]]].player_id,
                       overall |-> rows[idx[similar_indices[k]]].overall,
                       value_eur |-> rows[idx[similar_indices[k]]].value_eur,
                       similarity_score |-> sims[similar_indices[k]]]])

\* value_per_overall = value_eur / overall as the fraction <<v, o>>; NaN when
\* either is missing
HasRatio(r) == r.value_eur # NA /\ r.overall # NA
RatioLeq(a, b) == a.value_eur * b.overall <= b.value_eur * a.overall

\* sort_values(['overall', 'value_eur'], ascending=[False, True])
RanksBefore(a, b) ==
    \/ a.overall > b.overall
    \/ a.overall = b.overall /\ a.value_eur < b.value_eur

\* the order of a sort: by ascending value_per_overall, or that of sort_values
Before(a, b, by) ==
    IF by = "value_per_overall" THEN ~RatioLeq(b, a) ELSE RanksBefore(a, b)

\* a stable sort of s by the order by: an element's place is the number of
\* elements that come before it, earlier equals included
SortBy(s, by) ==
    LET n == Len(s)
        place(i) == 1 + Cardinality({ j \in 1..n :
                        \/ Before(s[j], s[i], by)
                        \/ ~Before(s[i], s[j], by) /\ j < i })
    IN [k \in 1..n |-> s[CHOOSE i \in 1..n : place(i) = k]]

\* Series.median(): NaN is skipped; the middle value, or the mean of the two
\* middle values, as a fraction <<numerator, denominator>>; <<>> for NaN
Median(rows) ==
    LET present == SelectSeq(rows, HasRatio)
        sorted == SortBy(present, "value_per_overall")
        k == Len(sorted)
    IN IF k = 0 THEN <<>>
       ELSE IF k % 2 = 1
       THEN <<sorted[(k + 1) \div 2].value_eur, sorted[(k + 1) \div 2].overall>>
       ELSE LET a == sorted[k \div 2]
                b == sorted[k \div 2 + 1]
            IN <<a.value_eur * b.overall + b.value_eur * a.overall,
                 2 * a.overall * b.overall>>

\* the filter mutated to `<=`
BelowOrAt(r, median, tenths) ==
    /\ HasRatio(r)
    /\ median # <<>>
    /\ r.value_eur * 10 * median[2] <= tenths * median[1] * r.overall
\* value_per_overall < median_value_per_overall * threshold, the threshold in
\* tenths; a comparison with NaN is False
Below(r, median, tenths) ==
    /\ HasRatio(r)
    /\ median # <<>>
    /\ r.value_eur * 10 * median[2] < tenths * median[1] * r.overall

\* .head(20)
HeadLimit == 20
Head_(s, n) == SubSeq(s, 1, IF Len(s) < n THEN Len(s) ELSE n)

\* identify_undervalued_players mutated to take head(20) before sort_values
IdentifyUndervaluedPlayersHeadFirst(rows, tenths) ==
    LET median == Median(rows)
        undervalued == SelectSeq(rows, LAMBDA r : Below(r, median, tenths))
    IN Return("undervalued", SortBy(Head_(undervalued, HeadLimit), "overall"))

\* identify_undervalued_players(df, threshold): the rows below the bound,
\* sorted, the first 20 of them
IdentifyUndervaluedPlayers(rows, tenths) ==
    LET median == Median(rows)
        undervalued == SelectSeq(rows, LAMBDA r : Below(r, median, tenths))
    IN Return("undervalued", Head_(SortBy(undervalued, "overall"), HeadLimit))

\* the default of n_similar
DefaultSimilar == 5

\* generate_player_report(df, player_id), order being what the argsort of
\* find_similar_players returns.  iloc[0] raises for an id no row has; the dict
\* is built in the order written, so that calculate_performance_index is
\* called before find_similar_players (with the default n_similar), and an
\* exception of either leaves the function.
GeneratePlayerReport(rows, player_id, order) ==
    IF TargetRows(rows, player_id) = <<>>
    THEN Raise("IndexError: single positional indexer is out-of-bounds")
    ELSE LET player_data == TargetRows(rows, player_id)[1]
             performance_index == CalculatePerformanceIndex(player_data)
             similar_players == FindSimilarPlayers(rows, player_id, DefaultSimilar, order)
         IN IF performance_index.kind = "raise" THEN performance_index
            ELSE IF similar_players.kind = "raise" THEN similar_players
            ELSE Return("report",
                   [basic_info |->
                       [name |-> player_data.long_name,
                        club |-> player_data.club_name,
                        position |-> player_data.player_positions,
                        age |-> player_data.age,
                        nationality |-> player_data.nationality_name],
                    ratings |->
                       [overall |-> player_data.overall,
                        potential |-> player_data.potential,
                        performance_index |-> performance_index.val],
                    market_info |->
                       [value |-> player_data.value_eur,
                        wage |-> player_data.wage_eur],
                    similar_players |-> similar_players.val,
                    strengths_weaknesses |->
                       [pace |-> player_data.pace,
                        shooting |-> player_data.shooting,
                        passing |-> player_data.passing,
                        dribbling |-> player_data.dribbling,
                        defending |-> player_data.defending,
                        physic |-> player_data.physic]])

\* ------------------------------------------------------- tactical_analysis.py
\* formation_positions: the slots of each formation, in dict order
formation_positions ==
    ("4-3-3" :> << <<<<"G", "K">>, 1>>, <<<<"C", "B">>, 2>>, <<<<"L", "B">>, 1>>,
                   <<<<"R", "B">>, 1>>, <<<<"C", "M">>, 2>>,
                   <<<<"C", "A", "M">>, 1>>, <<<<"L", "W">>, 1>>,
                   <<<<"R", "W">>, 1>>, <<<<"S", "T">>, 1>> >>)
    @@ ("4-4-2" :> << <<<<"G", "K">>, 1>>, <<<<"C", "B">>, 2>>, <<<<"L", "B">>, 1>>,
                      <<<<"R", "B">>, 1>>, <<<<"C", "M">>, 2>>, <<<<"L", "M">>, 1>>,
                      <<<<"R", "M">>, 1>>, <<<<"S", "T">>, 2>> >>)

RECURSIVE StrContainsFrom(_, _, _)
StrContainsFrom(rows, position, i) ==
    IF i > Len(rows) THEN <<>>
    ELSE (IF /\ ~rows[i].player_positions.na
             /\ Contains(rows[i].player_positions.s, position)
          THEN <<i>> ELSE <<>>)
         \o StrContainsFrom(rows, position, i + 1)
\* df[df['player_positions'].str.contains(position, na=False)]: the index of
\* the rows whose positions string contains position, NaN counting as no
StrContains(rows, position) == StrContainsFrom(rows, position, 1)

\* nlargest mutated to take the first n rows as they come
NLargestUnsorted(rows, idx, n) ==
    SubSeq(idx, 1, IF Len(idx) < n THEN Len(idx) ELSE n)
\* nlargest(n, 'overall') of the rows at idx: the n rows of largest overall in
\* descending order, equal ones in the order of the frame (keep='first')
NLargest(rows, idx, n) ==
    LET place(k) == 1 + Cardinality({ j \in 1..Len(idx) :
                        \/ rows[idx[j]].overall > rows[idx[k]].overall
                        \/ rows[idx[j]].overall = rows[idx[k]].overall /\ j < k })
    IN [p \in 1..(IF Len(idx) < n THEN Len(idx) ELSE n) |->
          idx[CHOOSE k \in 1..Len(idx) : place(k) = p]]

\* the body of the loop: best_players[['long_name', 'club_name', 'overall',
\* 'value_eur']], each row with its index label
BestPlayers(rows, position, count) ==
    LET position_players == StrContains(rows, position)
        best_players == NLargest(rows, position_players, count * 3)
    IN [k \in 1..Len(best_players) |->
          [index |-> best_players[k],
           long_name |-> rows[best_players[k]].long_name,
           club_name |-> rows[best_players[k]].club_name,
           overall |-> rows[best_players[k]].overall,
           value_eur |-> rows[best_players[k]].value_eur]]

\* tactical_formation_analyzer(df, formation): None, or the dict best_team as
\* its entries in insertion order
TacticalFormationAnalyzer(rows, formation) ==
    IF formation \notin DOMAIN formation_positions THEN Return("None", <<>>)
    ELSE LET slots == formation_positions[formation]
         IN Return("best_team",
                   [k \in 1..Len(slots) |->
                      [position |-> slots[k][1],
                       players |-> BestPlayers(rows, slots[k][1], slots[k][2])]])

RECURSIVE SumOf(_, _)
\* Series.sum(): missing values are skipped, the sum of none is 0
SumOf(rows, col) ==
    IF rows = <<>> THEN 0
    ELSE (IF Head(rows)[col] = NA THEN 0 ELSE Head(rows)[col])
         + SumOf(Tail(rows), col)

\* Series.mean(): the fraction <<sum, count>> over the present values, <<>>
\* (NaN) when there is none
MeanOf(rows, col) ==
    LET present == SelectSeq(rows, LAMBDA r : r[col] # NA)
    IN IF present = <<>> THEN <<>> ELSE <<SumOf(present, col), Len(present)>>

\* Series.nunique(): the number of distinct values, NaN not counted
NUnique(rows, col) ==
    Cardinality({ rows[i][col] : i \in 1..Len(rows) } \ {NaText})

\* the check mutated to `<= 11`
TeamOfTwelve(selected_players) == Len(selected_players) <= 11
\* len(selected_players) < 11
TeamTooSmall(selected_players) == Len(selected_players) < 11

\* create_team_chemistry_analysis(df, selected_players): None, or team_stats
CreateTeamChemistryAnalysis(rows, selected_players) ==
    IF TeamTooSmall(selected_players) THEN Return("None", <<>>)
    ELSE LET names == { selected_players[j] : j \in 1..Len(selected_players) }
             team_df == SelectSeq(rows, LAMBDA r : r.long_name \in names)
         IN Return("team_stats",
                   [avg_overall |-> MeanOf(team_df, "overall"),
                    avg_age |-> MeanOf(team_df, "age"),
                    total_value |-> SumOf(team_df, "value_eur"),
                    nationality_diversity |-> NUnique(team_df, "nationality_name"),
                    league_diversity |-> NUnique(team_df, "league_name"),
                    avg_pace |-> MeanOf(team_df, "pace"),
                    avg_shooting |-> MeanOf(team_df, "shooting"),
                    avg_passing |-> MeanOf(team_df, "passing"),
                    avg_defending |-> MeanOf(team_df, "defending")])

\* --------------------------------------------------------------- app.py main
\* the sidebar filters of app.py: gender, position (str.contains), overall range
ApplyFilters(f, g, position, lo, hi) ==
    LET filtered_df == DfCopy(f)
        byGender == IF g = "All" THEN filtered_df.rows
                    ELSE WithGender(filtered_df.rows, g)
        byPosition == IF position = <<>> THEN byGender
                      ELSE SelectSeq(byGender, LAMBDA r :
                               ~r.player_positions.na
                               /\ Contains(r.player_positions.s, position))
    IN SelectSeq(byPosition, LAMBDA r : r.overall >= lo /\ r.overall <= hi)

\* ------------------------------------------------------------------- calls
NoCtx == [done |-> FALSE, on |-> <<>>]
\* the histories of a new predictor and of a new analyzer
NoTrain == [done |-> FALSE, tried |-> FALSE, on |-> <<>>]
NoClustering == [done |-> FALSE, on |-> <<>>, n |-> 0, labels |-> <<>>]
NoCall == [op |-> "none", args |-> <<>>, ctx |-> NoCtx, ret |-> Return("none", <<>>)]
Call(op, args, ctx, ret) == [op |-> op, args |-> args, ctx |-> ctx, ret |-> ret]

\* the call becomes the last call
Record(call) ==
    /\ out' = call
    /\ ranOp' = TRUE

RowSet(f) == { f.rows[i] : i \in 1..Len(f.rows) }

DefaultThreshold == 8

\* the inputs of calculate_performance_index when the function is explored
IndexInputs ==
    { Player(0, pos, 3, 3, 9, 2, skills, gk) :
        pos \in {GK, CB, CM, ST, CB_CM, ST_GK, CAM_RWB, EmptyStr, NaStr,
                 LB, LWB, CDM, LM, ST_CM},
        skills \in {<<1, 2, 3, 4, 5, 6>>, <<90, 60, 75, 99, 0, 33>>,
                   <<7, NA, 7, 3, 3, NA>>, <<3, 3, 3, 3, 3, 3>>,
                   <<9, 9, 9, 9, 9, 9>>, NoSkills},
        gk \in {<<3, 3, 2, 3, 4>>, <<NA, 5, 1, NA, 2>>, <<NA, NA, NA, 3, NA>>,
                NoGk} }

\* the records prepare_data is explored on: values at, next to and beyond the
\* two limits, a missing value, and a goalkeeper without outfield ratings
PreparePalette ==
    { Player(11, CB, 2, 2, 0, 2, <<1, 1, 1, 1, 1, 1>>, NoGk),
      Player(12, ST, 4, 4, 200000000, 4, <<2, 2, 2, 2, 2, 2>>, NoGk),
      Player(13, ST, 4, 4, 200000001, 4, <<2, 2, 3, 2, 2, 2>>, NoGk),
      Player(14, CM, 4, 4, 199999999, 3, <<2, 3, 3, 2, 2, 2>>, NoGk),
      Player(15, CM, 3, 4, NA, 2, <<1, 2, 3, 2, 1, 1>>, NoGk),
      Player(16, GK, 3, 3, 10, 3, NoSkills, <<3, 3, 2, 3, 4>>),
      Player(17, CB, 3, 3, 1, 3, <<1, 1, 2, 1, 3, 2>>, NoGk) }

\* the records the formation analysis is explored on: four strikers, two of
\* them of equal overall, a player of two groups, a record without positions
FormationPalette ==
    { Named(Player(21, ST, 5, 5, 30, 3, <<3, 3, 2, 3, 1, 2>>, NoGk),
            "a", "x", "p", "l"),
      Named(Player(22, ST, 5, 5, 20, 2, <<2, 3, 2, 3, 1, 2>>, NoGk),
            "b", "x", "q", "l"),
      Named(Player(23, ST, 3, 4, 9, 2, <<2, 2, 2, 2, 1, 2>>, NoGk),
            "c", "y", "p", "l"),
      Named(Player(24, ST_GK, 4, 4, 12, 4, <<2, 3, 1, 2, 1, 2>>, <<3, 3, 2, 3, 4>>),
            "d", "y", "q", "k"),
      Named(Player(25, CAM_RWB, 2, 3, 6, 3, <<2, 1, 2, 2, 1, 1>>, NoGk),
            "e", "z", "p", "k"),
      Named(Player(26, NaStr, 6, 6, 40, 3, <<3, 3, 3, 3, 3, 3>>, NoGk),
            "f", "z", "r", "k") }

\* the records the team builder is explored on: twelve players, some without
\* a value, one without club and league
TeamSize == 12
TeamName(i) == ToString(i)
TeamRecord(i) ==
    Named(Player(30 + i, IF i % 3 = 0 THEN CB ELSE ST, 1 + (i % 4), 2 + (i % 4),
                 IF i % 5 = 0 THEN NA ELSE 3 * i, 2 + (i % 3),
                 <<1 + (i % 2), 1 + (i % 3), 2, 1 + (i % 4), 1, 2>>, NoGk),
          TeamName(i),
          IF i = 7 THEN NaText ELSE IF i % 2 = 0 THEN "x" ELSE "y",
          IF i % 3 = 0 THEN "p" ELSE IF i % 3 = 1 THEN "q" ELSE "r",
          IF i = 7 THEN NaText ELSE IF i % 4 = 0 THEN "k" ELSE "l")

\* the lists of names that are passed: k names from the s-th record on, going
\* round the records (so that more than TeamSize names repeat some); k times
\* the same name; k names no record has
Selections ==
    UNION { { [j \in 1..k |-> TeamName(((s + j - 2) % TeamSize) + 1)],
              [j \in 1..k |-> TeamName(s)],
              [j \in 1..k |-> TeamName(TeamSize + j)] } :
            k \in 0..MaxSelected, s \in 1..TeamSize }

\* the records the undervalued players are ranked on: every other record is
\* cheap for its overall, the others are dear or have no value; overall and
\* value_eur repeat, so that records tie on overall, and on both
RankedRecord(i, seed) ==
    IF i % 2 = 1
    THEN Named(Player(100 + i, ST, 5 + ((i * (seed + 1)) % 4), 9,
                      1 + ((i + seed) % 3), 3, <<1, 2, 1, 2, 1, 2>>, NoGk),
               ToString(i), "x", "p", "l")
    ELSE Named(Player(100 + i, CB, 5 + (i % 3), 9,
                      IF (i + seed) % 10 = 0 THEN NA ELSE 40 + i, 3,
                      <<1, 2, 1, 2, 1, 2>>, NoGk),
               ToString(i), "y", "q", "k")

\* the records the player report is explored on: complete players, a
\* goalkeeper (the files give goalkeepers no outfield ratings), a player with
\* some ratings missing, and a player without a positions string
ReportPalette ==
    { Named(Player(41, CB, 2, 2, 10, 2, <<1, 1, 1, 1, 1, 1>>, NoGk),
            "a", "x", "p", "l"),
      Named(Player(42, ST, 4, 4, 24, 4, <<2, 3, 2, 2, 1, 2>>, NoGk),
            "b", "x", "q", "l"),
      Named(Player(43, GK, 3, 3, 9, 3, NoSkills, <<3, 3, 2, 3, 4>>),
            "c", "y", "p", "l"),
      Named(Player(44, CM, 3, 4, 12, 2, <<NA, 2, 3, 2, NA, 1>>, NoGk),
            "d", "y", "q", "k"),
      Named(Player(45, NaStr, 3, 3, 9, 2, <<1, 2, 3, 2, 1, 1>>, NoGk),
            "e", "z", "p", "k") }

\* ------------------------------------------------------------------ actions
LoadStep ==
    /\ pc = "start"
    /\ LET r == LoadData(dash, male, female)
       IN /\ df' = r.ret
          /\ errorsShown' = errorsShown + r.errors
          /\ pc' = AfterLoad(r.ret)
    /\ loadCalls' = loadCalls + 1
    /\ UNCHANGED <<dash, male, female, ranOp, predictor, analyzer, out,
                   trainedOn, clusteredOn>>

FilterStep ==
    /\ pc = "loaded"
    /\ \E g \in {"All", "Male", "Female"}, position \in {<<>>, <<"C", "B">>},
          lo \in {0, 3}, hi \in {2, 9} :
         Record(Call("filters", <<g, position, lo, hi>>, NoCtx,
                     Return("filtered", ApplyFilters(df, g, position, lo, hi))))
    /\ UNCHANGED <<dash, male, female, pc, df, errorsShown, loadCalls,
                   predictor, analyzer, trainedOn, clusteredOn>>

TrainCall ==
    /\ pc = "loaded"
    /\ \E f \in Views(df) :
         LET r == Train(predictor, f.rows)
         IN /\ predictor' = r.self
            /\ trainedOn' = IF r.ret.kind = "raise"
                            THEN [trainedOn EXCEPT !.tried = TRUE]
                            ELSE [done |-> TRUE, tried |-> TRUE, on |-> f.rows]
            /\ Record(Call("train", <<Ids(f.rows)>>, NoCtx, r.ret))
    /\ UNCHANGED <<dash, male, female, pc, df, errorsShown, loadCalls,
                   analyzer, clusteredOn>>

PredictCall ==
    /\ pc = "loaded"
    /\ \E r \in RowSet(df) :
         Record(Call("predict", FeatureVector(r), trainedOn,
                     Predict(predictor, FeatureVector(r))))
    /\ UNCHANGED <<dash, male, female, pc, df, errorsShown, loadCalls,
                   predictor, analyzer, trainedOn, clusteredOn>>

FeatureImportanceCall ==
    /\ pc = "loaded"
    /\ Record(Call("get_feature_importance", <<>>, trainedOn,
                   GetFeatureImportance(predictor)))
    /\ UNCHANGED <<dash, male, female, pc, df, errorsShown, loadCalls,
                   predictor, analyzer, trainedOn, clusteredOn>>

\* perform_clustering writes the cluster column to a copy of df.loc[...]
PerformClusteringCall(every) ==
    /\ pc = "loaded"
    /\ \E f \in Views(df), n \in 1..MaxClusters :
         \E labels \in FitPredict(f.rows, n, every) :
            LET r == PerformClustering(analyzer, f.rows, n, labels)
            IN /\ analyzer' = r.self
               /\ df' = AssignColumn(df, DfCopy(Derived(f, ClusterData(f.rows))),
                                     "cluster")
               /\ Record(Call("perform_clustering", <<f.rows, n, labels>>, NoCtx,
                              r.ret))
               /\ clusteredOn' = [done |-> TRUE, on |-> f.rows, n |-> n,
                                  labels |-> labels]
    /\ UNCHANGED <<dash, male, female, pc, errorsShown, loadCalls, predictor,
                   trainedOn>>

\* create_cluster_visualization on a frame that carries cluster labels
ClusterVisualizationCall ==
    /\ pc = "loaded"
    /\ \E f \in Views(df) :
         LET rows == WithCluster(ClusterData(f.rows),
                                 [i \in 1..Len(ClusterData(f.rows)) |-> 0])
         IN Record(Call("create_cluster_visualization", rows,
                        clusteredOn, CreateClusterVisualization(analyzer, rows)))
    /\ UNCHANGED <<dash, male, female, pc, df, errorsShown, loadCalls,
                   predictor, analyzer, trainedOn, clusteredOn>>

PerformanceIndexCall(inputs) ==
    /\ pc = "loaded"
    /\ \E player_data \in inputs :
         Record(Call("calculate_performance_index", player_data, NoCtx,
                     CalculatePerformanceIndex(player_data)))
    /\ UNCHANGED <<dash, male, female, pc, df, errorsShown, loadCalls,
                   predictor, analyzer, trainedOn, clusteredOn>>

\* find_similar_players writes similarity_score to a copy of df.loc[...]
FindSimilarCall(ns, every) ==
    /\ pc = "loaded"
    /\ \E id \in { r.player_id : r \in RowSet(df) } \cup {0} :
         \E order \in ArgSortsFor(df.rows, id, every), n \in ns :
            /\ Record(Call("find_similar_players", <<id, n, order>>, NoCtx,
                           FindSimilarPlayers(df.rows, id, n, order)))
            /\ df' = AssignColumn(df, DfCopy(Derived(df, df.rows)),
                                  "similarity_score")
    /\ UNCHANGED <<dash, male, female, pc, errorsShown, loadCalls, predictor,
                   analyzer, trainedOn, clusteredOn>>

\* identify_undervalued_players writes value_per_overall to df.copy()
UndervaluedCall(thresholds) ==
    /\ pc = "loaded"
    /\ \E tenths \in thresholds :
         /\ Record(Call("identify_undervalued_players", <<tenths>>, NoCtx,
                        IdentifyUndervaluedPlayers(df.rows, tenths)))
         /\ df' = AssignColumn(df, DfCopy(df), "value_per_overall")
    /\ UNCHANGED <<dash, male, female, pc, errorsShown, loadCalls, predictor,
                   analyzer, trainedOn, clusteredOn>>

\* train's call of prepare_data on the loaded frame
PrepareDataCall ==
    /\ pc = "loaded"
    /\ Record(Call("prepare_data", df.rows, NoCtx,
                   Return("Xy", PrepareDataXy(df.rows))))
    /\ UNCHANGED <<dash, male, female, pc, df, errorsShown, loadCalls,
                   predictor, analyzer, trainedOn, clusteredOn>>

\* Formation Analysis: tactical_formation_analyzer(df, formation)
FormationCall(formations) ==
    /\ pc = "loaded"
    /\ \E formation \in formations :
         Record(Call("tactical_formation_analyzer", <<formation>>, NoCtx,
                     TacticalFormationAnalyzer(df.rows, formation)))
    /\ UNCHANGED <<dash, male, female, pc, df, errorsShown, loadCalls,
                   predictor, analyzer, trainedOn, clusteredOn>>

\* Team Builder: create_team_chemistry_analysis(df, selected_players)
TeamChemistryCall ==
    /\ pc = "loaded"
    /\ \E selected_players \in Selections :
         Record(Call("create_team_chemistry_analysis", selected_players, NoCtx,
                     CreateTeamChemistryAnalysis(df.rows, selected_players)))
    /\ UNCHANGED <<dash, male, female, pc, df, errorsShown, loadCalls,
                   predictor, analyzer, trainedOn, clusteredOn>>

\* Player Insights: the player chosen by name, then
\* generate_player_report(df, player_data['player_id'])
PlayerReportCall ==
    /\ pc = "loaded"
    /\ \E player_name \in { df.rows[i].long_name : i \in 1..Len(df.rows) } :
         LET player_data ==
                 SelectSeq(df.rows, LAMBDA r : r.long_name = player_name)[1]
         IN \E order \in ArgSortsFor(df.rows, player_data.player_id, TRUE) :
              Record(Call("generate_player_report",
                          <<player_data.player_id, order>>, NoCtx,
                          GeneratePlayerReport(df.rows, player_data.player_id,
                                               order)))
    /\ UNCHANGED <<dash, male, female, pc, df, errorsShown, loadCalls,
                   predictor, analyzer, trainedOn, clusteredOn>>

\* ------------------------------------------------------------ specifications
\* One run of one of the three scripts, from the start of main(), on files
\* whose rows are in the order of player_id
Init ==
    /\ dash \in {"main", "advanced", "tactical"}
    /\ male \in Files(MalePalette, MaxMale, FALSE)
    /\ female \in Files(FemalePalette, MaxFemale, FALSE)
    /\ pc = "start"
    /\ df = NoneFrame
    /\ errorsShown = 0
    /\ loadCalls = 0
    /\ ranOp = FALSE
    /\ predictor = NewPredictor
    /\ analyzer = NewAnalyzer
    /\ out = NoCall
    /\ trainedOn = NoTrain
    /\ clusteredOn = NoClustering

Next ==
    \/ LoadStep
    \/ dash = "main" /\ FilterStep
    \/ dash = "advanced" /\ TrainCall
    \/ dash = "advanced" /\ PredictCall
    \/ dash = "advanced" /\ FeatureImportanceCall
    \/ dash = "advanced" /\ PerformanceIndexCall(RowSet(df))
    \/ dash = "advanced" /\ FindSimilarCall({DefaultSimilar}, FALSE)
    \/ dash = "advanced" /\ UndervaluedCall({DefaultThreshold})
    \/ dash = "tactical" /\ PerformClusteringCall(FALSE)
    \/ dash = "tactical" /\ ClusterVisualizationCall

Spec == Init /\ [][Next]_vars

\* One call of the analytics layer on a dataset the advanced script has loaded
\* (the load that drops least), with arguments of every kind.  The functions
\* called keep nothing between calls, so that one call shows all they do.
InitAnalytics ==
    /\ dash = "advanced"
    /\ male \in { f \in Files(MalePalette, MaxMale, TRUE) : f.status = "ok" }
    /\ female \in { f \in Files(FemalePalette, MaxFemale, TRUE) : f.status = "ok" }
    /\ pc = "loaded"
    /\ df = LoadData(dash, male, female).ret
    /\ errorsShown = 0
    /\ loadCalls = 1
    /\ ranOp = FALSE
    /\ predictor = NewPredictor
    /\ analyzer = NewAnalyzer
    /\ out = NoCall
    /\ trainedOn = NoTrain
    /\ clusteredOn = NoClustering

NextAnalytics ==
    \/ ~ranOp /\ FindSimilarCall(0..MaxSimilar \cup {DefaultSimilar}, TRUE)
    \/ ~ranOp /\ UndervaluedCall({DefaultThreshold, 10})

SpecAnalytics == InitAnalytics /\ [][NextAnalytics]_vars

\* One call of perform_clustering on such a dataset, with every answer KMeans
\* may give: what it returns does not depend on the analyzer's earlier calls
NextCluster == ~ranOp /\ PerformClusteringCall(TRUE)

SpecCluster == InitAnalytics /\ [][NextCluster]_vars

\* one call of calculate_performance_index on inputs of its own (the function
\* keeps nothing between calls)
InitIndex ==
    /\ dash = "advanced"
    /\ male = [status |-> "ok", rows |-> <<>>]
    /\ female = [status |-> "ok", rows |-> <<>>]
    /\ pc = "loaded"
    /\ df = LoadData(dash, male, female).ret
    /\ errorsShown = 0
    /\ loadCalls = 1
    /\ ranOp = FALSE
    /\ predictor = NewPredictor
    /\ analyzer = NewAnalyzer
    /\ out = NoCall
    /\ trainedOn = NoTrain
    /\ clusteredOn = NoClustering

NextIndex == ~ranOp /\ PerformanceIndexCall(IndexInputs)

SpecIndex == InitIndex /\ [][NextIndex]_vars

\* prepare_data on a dataset the advanced script has loaded from a file with
\* values at and around the limits of the mask
InitPrepare ==
    /\ dash = "advanced"
    /\ male \in { [status |-> "ok", rows |-> s] :
                    s \in InjSeqs(PreparePalette, MaxPrepare) }
    /\ female = [status |-> "ok", rows |-> <<>>]
    /\ pc = "loaded"
    /\ df = LoadData(dash, male, female).ret
    /\ errorsShown = 0
    /\ loadCalls = 1
    /\ ranOp = FALSE
    /\ predictor = NewPredictor
    /\ analyzer = NewAnalyzer
    /\ out = NoCall
    /\ trainedOn = NoTrain
    /\ clusteredOn = NoClustering

NextPrepare == PrepareDataCall

SpecPrepare == InitPrepare /\ [][NextPrepare]_vars

\* the formation analysis on a dataset the tactical script has loaded, for
\* the two formations of the selectbox and one the table does not have
InitFormation ==
    /\ dash = "tactical"
    /\ male \in { [status |-> "ok", rows |-> s] :
                    s \in InjSeqs(FormationPalette, MaxFormation) }
    /\ female = [status |-> "ok", rows |-> <<>>]
    /\ pc = "loaded"
    /\ df = LoadData(dash, male, female).ret
    /\ errorsShown = 0
    /\ loadCalls = 1
    /\ ranOp = FALSE
    /\ predictor = NewPredictor
    /\ analyzer = NewAnalyzer
    /\ out = NoCall
    /\ trainedOn = NoTrain
    /\ clusteredOn = NoClustering

NextFormation == FormationCall({"4-3-3", "4-4-2", "3-5-2"})

SpecFormation == InitFormation /\ [][NextFormation]_vars

\* one call of the team builder on a dataset the tactical script has loaded
\* from the first rows of the twelve (the function keeps nothing between calls)
InitTeam ==
    /\ dash = "tactical"
    /\ male \in { [status |-> "ok", rows |-> [i \in 1..n |-> TeamRecord(i)]] :
                    n \in 0..TeamSize }
    /\ female = [status |-> "ok", rows |-> <<>>]
    /\ pc = "loaded"
    /\ df = LoadData(dash, male, female).ret
    /\ errorsShown = 0
    /\ loadCalls = 1
    /\ ranOp = FALSE
    /\ predictor = NewPredictor
    /\ analyzer = NewAnalyzer
    /\ out = NoCall
    /\ trainedOn = NoTrain
    /\ clusteredOn = NoClustering

NextTeam == ~ranOp /\ TeamChemistryCall

SpecTeam == InitTeam /\ [][NextTeam]_vars

\* Player Insights on a dataset the advanced script has loaded
InitReport ==
    /\ dash = "advanced"
    /\ male \in { [status |-> "ok", rows |-> s] :
                    s \in InjSeqs(ReportPalette, MaxReport) }
    /\ female = [status |-> "ok", rows |-> <<>>]
    /\ pc = "loaded"
    /\ df = LoadData(dash, male, female).ret
    /\ errorsShown = 0
    /\ loadCalls = 1
    /\ ranOp = FALSE
    /\ predictor = NewPredictor
    /\ analyzer = NewAnalyzer
    /\ out = NoCall
    /\ trainedOn = NoTrain
    /\ clusteredOn = NoClustering

NextReport == PlayerReportCall

SpecReport == InitReport /\ [][NextReport]_vars

\* the advanced script on a dataset of which more than 20 records can qualify
InitUndervalued ==
    /\ dash = "advanced"
    /\ male \in { [status |-> "ok", rows |-> [i \in 1..n |-> RankedRecord(i, seed)]] :
                    n \in MinRanked..MaxRanked, seed \in 0..MaxSeed }
    /\ female = [status |-> "ok", rows |-> <<>>]
    /\ pc = "loaded"
    /\ df = LoadData(dash, male, female).ret
    /\ errorsShown = 0
    /\ loadCalls = 1
    /\ ranOp = FALSE
    /\ predictor = NewPredictor
    /\ analyzer = NewAnalyzer
    /\ out = NoCall
    /\ trainedOn = NoTrain
    /\ clusteredOn = NoClustering

NextUndervalued == ~ranOp /\ UndervaluedCall({DefaultThreshold, 10})

SpecUndervalued == InitUndervalued /\ [][NextUndervalued]_vars

\* ------------------------------------------------------------------ claims
SameRet(a, b) == a.kind = b.kind /\ a.val = b.val

IsMustTrain(ret) == ret.kind = "raise" /\ ret.val = <<MustTrain>>

\* C1: predict and get_feature_importance raise ValueError('Model must be
\* trained first') exactly when no train call has completed before them (ctx
\* is the history of train calls at the time of the call; done never goes back
\* to FALSE)
MustTrainIffNeverTrained ==
    /\ out.op \in {"predict", "get_feature_importance"} =>
          (IsMustTrain(out.ret) <=> ~out.ctx.done)
    /\ trainedOn.done <=> predictor.is_trained

\* predict raises the error after a train call that raised
W_MustTrainIffNeverTrained ==
    /\ out.op = "predict" /\ IsMustTrain(out.ret)
    /\ out.ctx.tried /\ ~out.ctx.done

\* a new predictor on which the train call of history h, if one completed, was
\* made and nothing else
PredictorAfter(h) ==
    IF h.done THEN Train(NewPredictor, h.on).self ELSE NewPredictor

\* a new analyzer on which the perform_clustering call of history h, if there
\* was one, was made and nothing else
AnalyzerAfter(h) ==
    IF h.done THEN PerformClustering(NewAnalyzer, h.on, h.n, h.labels).self
    ELSE NewAnalyzer

\* the outcome the last call has when it is made on a new object with history h
OutcomeAfter(h) ==
    CASE out.op = "predict" -> Predict(PredictorAfter(h), out.args)
      [] out.op = "get_feature_importance" -> GetFeatureImportance(PredictorAfter(h))
      [] out.op = "perform_clustering" ->
            PerformClustering(AnalyzerAfter(h), out.args[1], out.args[2],
                              out.args[3]).ret
      [] out.op = "create_cluster_visualization" ->
            CreateClusterVisualization(AnalyzerAfter(h), out.args)
      [] OTHER -> out.ret

\* C2 as stated: the outcome of a call on the predictor or the cluster
\* analyzer depends only on the call's arguments: it is the outcome the same
\* call has on a new object, whatever was called before
NoStateMachine ==
    SameRet(out.ret, OutcomeAfter(NoCtx))

\* C2 as amended: the outcome depends on the arguments and on the last
\* completed train (predict, get_feature_importance) or the last
\* perform_clustering (create_cluster_visualization) on the same object, and on
\* nothing else that was called before: it is the outcome the same call has on
\* a new object after that one call; perform_clustering's is the outcome on a
\* new object (its ctx is the empty history)
StateOnlyThroughFit ==
    SameRet(out.ret, OutcomeAfter(out.ctx))

\* predict returns a prediction after a train on a selection of the dataset
W_StateOnlyThroughFit ==
    /\ out.op = "predict" /\ out.ret.kind = "ensemble"
    /\ out.ctx.done /\ out.ctx.on # df.rows

\* C3: the table find_similar_players returns never holds the target's record
TargetExcluded ==
    (out.op = "find_similar_players" /\ out.ret.kind = "similar") =>
        \A k \in 1..Len(out.ret.val) : out.ret.val[k].player_id # out.args[1]

\* C4: when a file cannot be read or preprocessed, load_data returns None
\* after one error message, the run stops with nothing else executed, and
\* load_data is not called again
LoadFailureStops ==
    (loadCalls > 0 /\ (\/ male.status = "unreadable"
                       \/ female.status = "unreadable"
                       \/ male.status = "nocolumns" /\ female.status = "nocolumns")) =>
        /\ IsNone(df)
        /\ errorsShown = 1
        /\ loadCalls = 1
        /\ pc = "stopped"
        /\ ~ranOp

\* the first file was read, the second was not, and the run has stopped
W_LoadFailureStops ==
    /\ pc = "stopped" /\ male.status = "ok" /\ Len(male.rows) > 0
    /\ female.status = "unreadable" /\ errorsShown = 1

\* C5: after load_data has returned, the loaded dataset stays what load_data
\* returned: no record, field or column of it changes
RecordsReadOnly ==
    pc = "loaded" => df = LoadData(dash, male, female).ret

\* identify_undervalued_players has run on a loaded dataset and returned rows
W_RecordsReadOnly ==
    /\ pc = "loaded" /\ out.op = "identify_undervalued_players"
    /\ Len(out.ret.val) > 0

\* the core fields of each script, as C6 lists them
CorePresent(d, r) ==
    /\ r.overall # NA
    /\ d \in {"main", "advanced"} => r.potential # NA
    /\ d = "main" => r.value_eur # NA
    /\ d = "tactical" =>
          /\ r.pace # NA /\ r.shooting # NA /\ r.passing # NA
          /\ r.dribbling # NA /\ r.defending # NA /\ r.physic # NA

\* C6: the loaded dataset holds exactly the input records whose core fields
\* are all present, each once
LoadKeepsCompleteRecords ==
    pc = "loaded" =>
        LET input == ReadRows(male) \o ReadRows(female)
            complete == { input[i].player_id : i \in
                            { j \in 1..Len(input) : CorePresent(dash, input[j]) } }
        IN /\ { df.rows[i].player_id : i \in 1..Len(df.rows) } = complete
           /\ Len(df.rows) = Cardinality(complete)

\* a load that kept a record and dropped another
W_LoadKeepsCompleteRecords ==
    /\ pc = "loaded" /\ Len(df.rows) > 0
    /\ Len(df.rows) < Len(male.rows) + Len(female.rows)

\* all seven clustering features of a record are present
ClusterComplete(r) ==
    /\ r.pace # NA /\ r.shooting # NA /\ r.passing # NA /\ r.dribbling # NA
    /\ r.defending # NA /\ r.physic # NA /\ r.overall # NA

\* C7 as stated: every row passed to perform_clustering appears in the
\* result with exactly one cluster label, an integer in 0..n_clusters-1
EveryRowLabelled ==
    (out.op = "perform_clustering" /\ out.ret.kind = "clustered") =>
        \A i \in 1..Len(out.args[1]) :
            Cardinality({ k \in 1..Len(out.ret.val) :
                /\ out.ret.val[k].player_id = out.args[1][i].player_id
                /\ out.ret.val[k].cluster \in 0..(out.args[2] - 1) }) = 1

\* C7 as amended: perform_clustering returns a result exactly when at least
\* n_clusters rows (and at least one) have all seven clustering features; then
\* every such row appears exactly once, unchanged, with one label in
\* 0..n_clusters-1, and the rows with a missing feature do not appear
CompleteRowsLabelled ==
    out.op = "perform_clustering" =>
        LET rows == out.args[1]
            n == out.args[2]
            complete == { i \in 1..Len(rows) : ClusterComplete(rows[i]) }
        IN IF Cardinality(complete) >= 1 /\ Cardinality(complete) >= n
           THEN /\ out.ret.kind = "clustered"
                /\ Len(out.ret.val) = Cardinality(complete)
                /\ \A i \in complete :
                     \E k \in 1..Len(out.ret.val) :
                        /\ out.ret.val[k].cluster \in 0..(n - 1)
                        /\ \A c \in DOMAIN rows[i] : out.ret.val[k][c] = rows[i][c]
           ELSE out.ret.kind = "raise"

\* a clustering into two clusters that left a row out and used both labels
W_CompleteRowsLabelled ==
    /\ out.op = "perform_clustering" /\ out.ret.kind = "clustered"
    /\ out.args[2] = 2
    /\ Len(out.ret.val) < Len(out.args[1])
    /\ \E k, l \in 1..Len(out.ret.val) : out.ret.val[k].cluster # out.ret.val[l].cluster

\* the five-attribute sums of C8, in hundredths
GkSum(p) ==
    20 * p.goalkeeping_diving + 20 * p.goalkeeping_handling
    + 15 * p.goalkeeping_kicking + 20 * p.goalkeeping_positioning
    + 25 * p.goalkeeping_reflexes
DefSum(p) ==
    30 * p.defending + 20 * p.physic + 20 * p.pace + 20 * p.passing
    + 10 * p.dribbling
MidSum(p) ==
    30 * p.passing + 25 * p.dribbling + 15 * p.defending + 15 * p.physic
    + 15 * p.shooting
FwdSum(p) ==
    30 * p.shooting + 25 * p.pace + 25 * p.dribbling + 10 * p.passing
    + 10 * p.physic
GkAll(p) ==
    NotNaAll(p, {"goalkeeping_diving", "goalkeeping_handling",
                 "goalkeeping_kicking", "goalkeeping_positioning",
                 "goalkeeping_reflexes"})
OutfieldAll(p) ==
    NotNaAll(p, {"pace", "shooting", "passing", "dribbling", "defending", "physic"})

\* the index is sum hundredths over 100, and the total weight the code divided
\* by is total
IndexIs(ret, sum, total) ==
    /\ ret.kind = "index"
    /\ ret.val.num = sum /\ ret.val.den = 100 /\ ret.val.total_weight = total

\* 1 - 2^-53, the double below 1.0 (0.9999999999999999)
BelowOne == <<2^16 - 1, Limb - 1, Limb - 8>>

\* C8 as stated: for a record whose five attributes of its position group are
\* all present, the index is the sum of the five values times the group's
\* weights, and in each of the four groups the total weight is exactly 1, so
\* that the division leaves the sum unchanged
IndexIsWeightedSum ==
    (out.op = "calculate_performance_index" /\ ~out.args.player_positions.na) =>
        LET p == out.args
            pos == p.player_positions
        IN /\ (pos \in {GK, ST_GK} /\ GkAll(p)) => IndexIs(out.ret, GkSum(p), FloatOne)
           /\ (pos \in {CB, CB_CM, CAM_RWB} /\ OutfieldAll(p))
                 => IndexIs(out.ret, DefSum(p), FloatOne)
           /\ (pos = CM /\ OutfieldAll(p)) => IndexIs(out.ret, MidSum(p), FloatOne)
           /\ (pos \in {ST, EmptyStr} /\ OutfieldAll(p))
                 => IndexIs(out.ret, FwdSum(p), FloatOne)

\* C8 as amended: for such a record the index is the sum of the five values
\* times the group's weights, divided by the total weight the code has added
\* up, which is exactly 1 for goalkeepers, midfielders and forwards and
\* 1 - 2^-53 for defenders (whose index therefore differs from the sum in the
\* last place)
IndexIsWeightedSumOverTotal ==
    (out.op = "calculate_performance_index" /\ ~out.args.player_positions.na) =>
        LET p == out.args
            pos == p.player_positions
        IN /\ (pos \in {GK, ST_GK} /\ GkAll(p)) => IndexIs(out.ret, GkSum(p), FloatOne)
           /\ (pos \in {CB, CB_CM, CAM_RWB} /\ OutfieldAll(p))
                 => IndexIs(out.ret, DefSum(p), BelowOne)
           /\ (pos = CM /\ OutfieldAll(p)) => IndexIs(out.ret, MidSum(p), FloatOne)
           /\ (pos \in {ST, EmptyStr} /\ OutfieldAll(p))
                 => IndexIs(out.ret, FwdSum(p), FloatOne)

\* the index of a defender with all five defender attributes
W_IndexIsWeightedSumOverTotal ==
    /\ out.op = "calculate_performance_index"
    /\ out.args.player_positions = CB
    /\ OutfieldAll(out.args) /\ out.args.defending = 5
    /\ out.ret.kind = "index" /\ out.ret.val.num = DefSum(out.args)
    /\ out.ret.val.total_weight # FloatOne

KeptIffWithinLimits ==
    out.op = "prepare_data" =>
        LET rows == out.args
            X == out.ret.val.X
            y == out.ret.val.y
        IN /\ \A i \in 1..Len(rows) :
                (\E k \in 1..Len(X) : X[k][1] = i)
                    <=> /\ NotNaAll(rows[i], feature_cols)
                        /\ rows[i].value_eur # NA
                        /\ ~(rows[i].value_eur > 200000000)
                        /\ ~(rows[i].value_eur < 0)
           /\ Len(X) = Len(y)
           /\ \A k \in 1..Len(X) : X[k][1] = y[k][1]

\* the positions and slot counts of the two formations, as C12 has them
Slots(formation) ==
    IF formation = "4-3-3"
    THEN { <<<<"G", "K">>, 1>>, <<<<"C", "B">>, 2>>, <<<<"L", "B">>, 1>>,
           <<<<"R", "B">>, 1>>, <<<<"C", "M">>, 2>>, <<<<"C", "A", "M">>, 1>>,
           <<<<"L", "W">>, 1>>, <<<<"R", "W">>, 1>>, <<<<"S", "T">>, 1>> }
    ELSE { <<<<"G", "K">>, 1>>, <<<<"C", "B">>, 2>>, <<<<"L", "B">>, 1>>,
           <<<<"R", "B">>, 1>>, <<<<"C", "M">>, 2>>, <<<<"L", "M">>, 1>>,
           <<<<"R", "M">>, 1>>, <<<<"S", "T">>, 2>> }

\* C12: tactical_formation_analyzer returns None for a formation other than
\* '4-3-3' and '4-4-2'; for these it returns one entry per position of the
\* formation, holding at most 3 x slots players (all the matching players when
\* there are fewer), each matching the position (its positions string contains
\* it), in non-increasing order of overall, and no matching player left out
\* has a higher overall than a returned one
FormationBestPlayers ==
    out.op = "tactical_formation_analyzer" =>
        LET rows == df.rows
            formation == out.args[1]
            best_team == out.ret.val
            matching(position) ==
                { i \in 1..Len(rows) :
                    /\ ~rows[i].player_positions.na
                    /\ Contains(rows[i].player_positions.s, position) }
        IN IF formation \notin {"4-3-3", "4-4-2"} THEN out.ret.kind = "None"
           ELSE /\ out.ret.kind = "best_team"
                /\ Len(best_team) = Cardinality(Slots(formation))
                /\ \A slot \in Slots(formation) :
                     \E k \in 1..Len(best_team) :
                        LET players == best_team[k].players
                            chosen == { players[j].index : j \in 1..Len(players) }
                            among == matching(slot[1])
                        IN /\ best_team[k].position = slot[1]
                           /\ Len(players) <= 3 * slot[2]
                           /\ Cardinality(chosen) = Len(players)
                           /\ chosen \subseteq among
                           /\ chosen # among => Len(players) = 3 * slot[2]
                           /\ \A j \in 1..Len(players) :
                                /\ players[j].overall = rows[players[j].index].overall
                                /\ players[j].long_name = rows[players[j].index].long_name
                           /\ \A j \in 1..(Len(players) - 1) :
                                players[j].overall >= players[j + 1].overall
                           /\ \A i \in among \ chosen, j \in 1..Len(players) :
                                rows[i].overall <= players[j].overall

\* four players match ST, the three best of them are returned for the one
\* striker of 4-3-3, and the one left out comes first in the dataset
W_FormationBestPlayers ==
    /\ out.op = "tactical_formation_analyzer" /\ out.args[1] = "4-3-3"
    /\ out.ret.kind = "best_team"
    /\ Len(out.ret.val[9].players) = 3
    /\ Len(df.rows) = 4
    /\ \A i \in 1..4 : Contains(df.rows[i].player_positions.s, <<"S", "T">>)
    /\ \A j \in 1..3 : out.ret.val[9].players[j].index # 1

\* C13: create_team_chemistry_analysis returns None, leaving the dataset as
\* it was, whenever fewer than 11 names are passed, and the nine team
\* statistics whenever 11 or more are passed
NineStatsFromEleven ==
    out.op = "create_team_chemistry_analysis" =>
        /\ df = LoadData(dash, male, female).ret
        /\ IF Len(out.args) < 11 THEN out.ret = Return("None", <<>>)
           ELSE /\ out.ret.kind = "team_stats"
                /\ DOMAIN out.ret.val =
                     {"avg_overall", "avg_age", "total_value",
                      "nationality_diversity", "league_diversity", "avg_pace",
                      "avg_shooting", "avg_passing", "avg_defending"}

\* exactly 11 names of the dataset's players were passed and the statistics
\* of the eleven came back
W_NineStatsFromEleven ==
    /\ out.op = "create_team_chemistry_analysis" /\ Len(out.args) = 11
    /\ Len(df.rows) = TeamSize
    /\ out.ret.kind = "team_stats"
    /\ out.ret.val.avg_overall # <<>> /\ out.ret.val.avg_overall[2] = 11

\* C14: when the target id does not occur in the dataset, find_similar_players
\* returns an empty table and does not raise, whatever the dataset holds
UnknownTargetGivesEmptyTable ==
    (/\ out.op = "find_similar_players"
     /\ \A i \in 1..Len(df.rows) : df.rows[i].player_id # out.args[1]) =>
        out.ret = Return("similar", <<>>)

\* the id of no record was asked for on a dataset that holds complete records
\* and one without the similarity features
W_UnknownTargetGivesEmptyTable ==
    /\ out.op = "find_similar_players" /\ out.args[1] = 0
    /\ out.ret = Return("similar", <<>>)
    /\ Len(df.rows) >= 3
    /\ \E i \in 1..Len(df.rows) : ~HasSimilarityFeatures(df.rows[i])

\* C15: for every player of the loaded dataset, those without a positions
\* string or without some ratings included, generate_player_report returns a
\* report with its five sections, and no error leaves the call
ReportAlwaysComplete ==
    out.op = "generate_player_report" =>
        /\ out.ret.kind = "report"
        /\ DOMAIN out.ret.val = {"basic_info", "ratings", "market_info",
                                 "similar_players", "strengths_weaknesses"}

\* the last call's index is the one the loop computes with this weight table
UsesGroup(table) ==
    LET acc == WeightedScore(out.args, table, <<0, 0, FloatZero, FloatZero>>)
    IN /\ out.ret.kind = "index"
       /\ out.ret.val.num = acc[1]
       /\ acc[2] > 0 => /\ out.ret.val.den = acc[2]
                        /\ out.ret.val.total_weight = acc[3]

\* C16: the weight group is chosen by substring matching in fixed precedence:
\* goalkeeper if the positions string contains GK; otherwise defender if it
\* contains one of CB, LB, RB, LWB, RWB; otherwise midfielder if it contains
\* one of CM, CDM, CAM; otherwise forward/winger, also for the empty string;
\* a string with positions of several groups gets the earliest of them
GroupByPrecedence ==
    (out.op = "calculate_performance_index" /\ ~out.args.player_positions.na) =>
        LET s == out.args.player_positions.s
            goalkeeper == Contains(s, <<"G", "K">>)
            defender == \E sub \in {<<"C", "B">>, <<"L", "B">>, <<"R", "B">>,
                                    <<"L", "W", "B">>, <<"R", "W", "B">>} :
                            Contains(s, sub)
            midfielder == \E sub \in {<<"C", "M">>, <<"C", "D", "M">>,
                                      <<"C", "A", "M">>} : Contains(s, sub)
        IN /\ goalkeeper => UsesGroup(GoalkeeperWeights)
           /\ (~goalkeeper /\ defender) => UsesGroup(DefenderWeights)
           /\ (~goalkeeper /\ ~defender /\ midfielder) => UsesGroup(MidfielderWeights)
           /\ (~goalkeeper /\ ~defender /\ ~midfielder) => UsesGroup(ForwardWeights)
           /\ s = <<>> => UsesGroup(ForwardWeights)
           /\ out.args.player_positions = ST_GK => UsesGroup(GoalkeeperWeights)
           /\ out.args.player_positions \in {CB_CM, CAM_RWB}
                 => UsesGroup(DefenderWeights)
           /\ out.args.player_positions = ST_CM => UsesGroup(MidfielderWeights)

\* a player listed as 'CAM, RWB' with all ratings got the defender's index,
\* which is not the midfielder's
W_GroupByPrecedence ==
    /\ out.op = "calculate_performance_index"
    /\ out.args.player_positions = CAM_RWB /\ OutfieldAll(out.args)
    /\ out.ret.kind = "index"
    /\ out.ret.val.num = DefSum(out.args)
    /\ out.ret.val.num # MidSum(out.args)

\* the present attributes of a weight table, as positions in the table
Present(p, table) == { k \in 1..Len(table) : p[table[k][1]] # NA }

RECURSIVE SumOver(_, _, _, _)
\* the sum over the present attributes of value times weight (weighted) or
\* of the weights, in hundredths
SumOver(p, table, ks, weighted) ==
    IF ks = {} THEN 0
    ELSE LET k == CHOOSE j \in ks : TRUE
         IN (IF weighted THEN p[table[k][1]] * table[k][2] ELSE table[k][2])
            + SumOver(p, table, ks \ {k}, weighted)

\* the whole number v as a double
FloatOf(v) == <<v * 2^16, 0, 0>>

\* x + y (exact)
FloatPlus(x, y) == Carry(<<x[1] + y[1], x[2] + y[2], x[3] + y[3]>>)

\* C17 as stated: with some attributes of the group missing, the index
\* returned is the weighted average over the present ones and lies between
\* the smallest and the largest present value; with none present it is
\* exactly 0
IndexWithinPresentValues ==
    (out.op = "calculate_performance_index" /\ out.ret.kind = "index") =>
        LET p == out.args
            table == Weights(p.player_positions.s)
            present == Present(p, table)
        IN IF present = {} THEN out.ret.val.value = FloatZero
           ELSE /\ out.ret.val.num * SumOver(p, table, present, FALSE)
                      = SumOver(p, table, present, TRUE) * out.ret.val.den
                /\ \E k \in present :
                      FloatGeq(out.ret.val.value, FloatOf(p[table[k][1]]))
                /\ \E k \in present :
                      FloatGeq(FloatOf(p[table[k][1]]), out.ret.val.value)

\* C17 as amended: the index returned is the binary64 result of dividing the
\* sum of value times weight over the present attributes by the sum of their
\* weights; the exact weighted average lies between the smallest and the
\* largest present value, and the double returned is within 2^-50 of it in
\* relative terms (so that it may leave that range in the last places); with
\* none present it is exactly 0
IndexNearWeightedAverage ==
    (out.op = "calculate_performance_index" /\ out.ret.kind = "index") =>
        LET p == out.args
            table == Weights(p.player_positions.s)
            present == Present(p, table)
            num == SumOver(p, table, present, TRUE)
            den == SumOver(p, table, present, FALSE)
            scaled == FloatScale(out.ret.val.value, den, 0)
            exact == FloatOf(num)
            slack == Carry(<<0, 0, num * 2^6>>)
        IN IF present = {} THEN out.ret.val.value = FloatZero
           ELSE /\ out.ret.val.num * den = num * out.ret.val.den
                /\ \E k \in present : p[table[k][1]] * den <= num
                /\ \E k \in present : p[table[k][1]] * den >= num
                /\ FloatGeq(FloatPlus(exact, slack), scaled)
                /\ FloatGeq(FloatPlus(scaled, slack), exact)

\* a goalkeeper with one attribute present, of value 3, got
\* 3.0000000000000004 (3 + 2^-51)
W_IndexNearWeightedAverage ==
    /\ out.op = "calculate_performance_index" /\ out.ret.kind = "index"
    /\ out.args.player_positions = GK
    /\ out.args.goalkeeping_positioning = 3
    /\ Present(out.args, GoalkeeperWeights) = {4}
    /\ out.ret.val.value = <<3 * 2^16, 0, 32>>

\* C18: for a target id present in the dataset, find_similar_players returns
\* exactly min(n_similar, m - 1) rows, m being the number of records with all
\* eight similarity features; the rows are in non-increasing order of
\* similarity_score, each score is the similarity of that row's record, and
\* apart from one skipped record no record left out is more similar than a
\* returned one
SimilarRowsRanked ==
    (/\ out.op = "find_similar_players"
     /\ \E i \in 1..Len(df.rows) : df.rows[i].player_id = out.args[1]) =>
        LET rows == df.rows
            n == out.args[2]
            target == TargetRows(rows, out.args[1])[1]
            complete == { i \in 1..Len(rows) : HasSimilarityFeatures(rows[i]) }
            m == Cardinality(complete)
            similar == out.ret.val
            returned == { i \in complete :
                            \E k \in 1..Len(similar) :
                               similar[k].player_id = rows[i].player_id }
            sim(i) == Cosine(target, rows[i])
        IN /\ out.ret.kind = "similar"
           /\ Len(similar) = IF n < m - 1 THEN n ELSE m - 1
           /\ Cardinality(returned) = Len(similar)
           /\ \A k \in 1..(Len(similar) - 1) :
                 CosLeq(similar[k + 1].similarity_score, similar[k].similarity_score)
           /\ \A k \in 1..Len(similar), i \in complete :
                 similar[k].player_id = rows[i].player_id
                    => similar[k].similarity_score = sim(i)
           /\ \E skipped \in complete \ returned :
                 \A i \in complete \ (returned \cup {skipped}), j \in returned :
                    CosLeq(sim(i), sim(j))

\* C19: identify_undervalued_players returns at most 20 players, by overall
\* descending and, among equal overall, by value_eur ascending; they are the
\* first 20 of the qualifying players in that order: no qualifying player left
\* out ranks before a returned one
UndervaluedFirstTwenty ==
    out.op = "identify_undervalued_players" =>
        LET rows == df.rows
            median == Median(rows)
            returned_rows == out.ret.val
            qualifying == { i \in 1..Len(rows) : Below(rows[i], median, out.args[1]) }
            returned == { i \in qualifying :
                            \E k \in 1..Len(returned_rows) :
                               returned_rows[k].player_id = rows[i].player_id }
            ranks(a, b) == \/ a.overall > b.overall
                           \/ a.overall = b.overall /\ a.value_eur < b.value_eur
        IN /\ out.ret.kind = "undervalued"
           /\ Len(returned_rows) <= 20
           /\ Len(returned_rows) =
                 IF Cardinality(qualifying) < 20 THEN Cardinality(qualifying) ELSE 20
           /\ Cardinality(returned) = Len(returned_rows)
           /\ \A k \in 1..(Len(returned_rows) - 1) :
                 ~ranks(returned_rows[k + 1], returned_rows[k])
           /\ \A i \in qualifying \ returned, j \in returned :
                 ~ranks(rows[i], rows[j])

\* more than 20 players qualified: 20 were returned, two of them with the same
\* overall and different values, and a qualifying player was left out
W_UndervaluedFirstTwenty ==
    /\ out.op = "identify_undervalued_players"
    /\ Len(out.ret.val) = 20
    /\ \E k \in 1..19 :
          /\ out.ret.val[k].overall = out.ret.val[k + 1].overall
          /\ out.ret.val[k].value_eur < out.ret.val[k + 1].value_eur
    /\ \E i \in 1..Len(df.rows) :
          /\ Below(df.rows[i], Median(df.rows), out.args[1])
          /\ \A k \in 1..20 : out.ret.val[k].player_id # df.rows[i].player_id


====
